---- MODULE Spec2Model ----
(***************************************************************************)
(* ThreadPool (cpp-tp.hpp): a pool of worker threads that run callables    *)
(* taken from a FIFO queue, with one management mutex, one condition       *)
(* variable for the workers and one for the threads blocked in wait().     *)
(*                                                                         *)
(* Every critical section of the class is one action (the mutex makes it   *)
(* atomic), so every state of the model is a state with the management     *)
(* lock free.  A condition-variable wait is split where the thread blocks: *)
(* a blocked thread is moved to a "ready" position by a notification or by *)
(* a spurious wake-up, and from there re-acquires the lock and re-checks   *)
(* its predicate.                                                          *)
(***************************************************************************)
EXTENDS Integers, Sequences, FiniteSets

\* Bounds of the model.
MaxWorkers == 2
MaxJobs == 2
NumClients == 2

Workers == 0 .. (MaxWorkers - 1)    \* worker ordinal ids
Jobs == 1 .. MaxJobs                \* the callables, in order of submission
Clients == 1 .. NumClients          \* threads that call the public interface

VARIABLES
    m_stopped,          \* bool m_stopped
    m_waiting,          \* bool m_waiting
    m_pending_jobs,     \* ssize_t m_pending_jobs
    m_job_queue,        \* std::queue of jobs: a sequence, front first
    m_worker_threads,   \* std::vector of threads: the sequence of their ids
    wpc,                \* each worker thread's position in workerLoop
    wjob,               \* each worker's local `job` while it is run (0: none)
    cpc,                \* each client thread's position
    cjoin,              \* stop()'s position in its join loop (0: not in it)
    submitted,          \* number of addJob calls so far
    started,            \* per job, how many times a worker dequeued it
    event               \* the call that returned in the last step

vars == << m_stopped, m_waiting, m_pending_jobs, m_job_queue, m_worker_threads,
           wpc, wjob, cpc, cjoin, submitted, started, event >>

\* std::thread::hardware_concurrency(): the number of hardware threads, or 0
\* when it is not computable.
HardwareConcurrency == 0 .. MaxWorkers

\* The ids start() gives to the threads it creates: 0 .. worker_count - 1.
ThreadIds(worker_count) == [i \in 1 .. worker_count |-> i - 1]

\* What the last step returned to its caller: the call (op), its argument
\* (worker_count of start, clear_queue of stop), and its result (ok: the bool
\* of start and stop; count: the size_t of clearQueue; blocked: whether a
\* wait() that returned had blocked).  "none": the step returned from no call.
NoCall ==
    [op |-> "none", worker_count |-> 0, clear_queue |-> FALSE, ok |-> FALSE,
     count |-> 0, blocked |-> FALSE]

----------------------------------------------------------------------------
\* Read-only queries (each takes the lock and returns a snapshot).

isStopped == m_stopped

pendingJobs == m_pending_jobs

queuedJobs == Len(m_job_queue)

runningJobs == m_pending_jobs - Len(m_job_queue)

----------------------------------------------------------------------------
\* Condition variables.

\* m_management_cv.notify_one(): one worker blocked on the variable, if any.
NotifyOneWorker ==
    IF \E w \in Workers : wpc[w] = "blocked"
    THEN \E w \in {v \in Workers : wpc[v] = "blocked"} :
            wpc' = [wpc EXCEPT ![w] = "ready"]
    ELSE wpc' = wpc

\* m_management_cv.notify_all(): every worker blocked on the variable.
NotifyAllWorkers ==
    wpc' = [w \in Workers |-> IF wpc[w] = "blocked" THEN "ready" ELSE wpc[w]]

\* m_counter_cv.notify_one(): one thread blocked in wait(), if any.
NotifyOneWaiter ==
    IF \E c \in Clients : cpc[c] = "wblocked"
    THEN \E c \in {d \in Clients : cpc[d] = "wblocked"} :
            cpc' = [cpc EXCEPT ![c] = "wready"]
    ELSE cpc' = cpc

----------------------------------------------------------------------------
\* The constructor: m_stopped(true), m_waiting(false), m_pending_jobs(0), then
\* start(worker_count) when auto_start is set.
Init ==
    \E auto_start \in BOOLEAN, worker_count \in 0 .. MaxWorkers,
       hw \in HardwareConcurrency :
        LET n == IF worker_count = 0 THEN hw ELSE worker_count IN
        /\ m_stopped = ~auto_start
        /\ m_waiting = FALSE
        /\ m_pending_jobs = 0
        /\ m_job_queue = << >>
        /\ m_worker_threads = IF auto_start THEN ThreadIds(n) ELSE << >>
        /\ wpc = [w \in Workers |->
                    IF auto_start /\ w < n THEN "ready" ELSE "none"]
        /\ wjob = [w \in Workers |-> 0]
        /\ cpc = [c \in Clients |-> "idle"]
        /\ cjoin = [c \in Clients |-> 0]
        /\ submitted = 0
        /\ started = [j \in Jobs |-> 0]
        /\ event = NoCall

----------------------------------------------------------------------------
\* The public interface, called by client thread c.

\* Mutant of addJob: no m_management_cv.notify_one().
addJobNoNotify(c) ==
    /\ cpc[c] = "idle"
    /\ submitted < MaxJobs
    /\ m_pending_jobs' = m_pending_jobs + 1
    /\ m_job_queue' = Append(m_job_queue, submitted + 1)
    /\ submitted' = submitted + 1
    /\ event' = [NoCall EXCEPT !.op = "addJob"]
    /\ UNCHANGED << m_stopped, m_waiting, m_worker_threads, wpc, wjob, cpc,
                    cjoin, started >>

\* addJob(work_func): the job is the next one in order of submission.
addJob(c) ==
    /\ cpc[c] = "idle"
    /\ submitted < MaxJobs
    /\ m_pending_jobs' = m_pending_jobs + 1
    /\ m_job_queue' = Append(m_job_queue, submitted + 1)
    /\ submitted' = submitted + 1
    /\ NotifyOneWorker
    /\ event' = [NoCall EXCEPT !.op = "addJob"]
    /\ UNCHANGED << m_stopped, m_waiting, m_worker_threads, wjob, cpc, cjoin,
                    started >>

\* Mutant of start: no check of m_stopped, the threads are always created.
startNoCheck(c, worker_count) ==
    /\ cpc[c] = "idle"
    /\ \A d \in Clients : cpc[d] # "join"
    /\ \E hw \in HardwareConcurrency :
        LET n == IF worker_count = 0 THEN hw ELSE worker_count IN
        /\ m_stopped' = FALSE
        /\ m_worker_threads' = m_worker_threads \o ThreadIds(n)
        /\ wpc' = [w \in Workers |-> IF w < n THEN "ready" ELSE wpc[w]]
        /\ event' = [NoCall EXCEPT !.op = "start",
                                  !.worker_count = worker_count,
                                  !.ok = TRUE]
    /\ UNCHANGED << m_waiting, m_pending_jobs, m_job_queue, wjob, cpc, cjoin,
                    submitted, started >>

\* Mutant of start: each new worker waits on m_management_cv before it looks
\* at the queue, so it needs a notification to see jobs queued before start.
startWorkersBlocked(c, worker_count) ==
    /\ cpc[c] = "idle"
    /\ \A d \in Clients : cpc[d] # "join"
    /\ IF ~m_stopped
       THEN /\ event' = [NoCall EXCEPT !.op = "start",
                                      !.worker_count = worker_count]
            /\ UNCHANGED << m_stopped, m_worker_threads, wpc >>
       ELSE \E hw \in HardwareConcurrency :
            LET n == IF worker_count = 0 THEN hw ELSE worker_count IN
            /\ m_stopped' = FALSE
            /\ m_worker_threads' = m_worker_threads \o ThreadIds(n)
            /\ wpc' = [w \in Workers |-> IF w < n THEN "blocked" ELSE wpc[w]]
            /\ event' = [NoCall EXCEPT !.op = "start",
                                      !.worker_count = worker_count,
                                      !.ok = TRUE]
    /\ UNCHANGED << m_waiting, m_pending_jobs, m_job_queue, wjob, cpc, cjoin,
                    submitted, started >>

\* start(worker_count).  m_worker_threads is written here and read by stop()'s
\* join loop without the lock, so a start() during another thread's join loop
\* is a data race; the class leaves start/stop to one controlling thread, and
\* the model takes no start() while a stop() is joining.
start(c, worker_count) ==
    /\ cpc[c] = "idle"
    /\ \A d \in Clients : cpc[d] # "join"
    /\ IF ~m_stopped
       THEN /\ event' = [NoCall EXCEPT !.op = "start",
                                      !.worker_count = worker_count]
            /\ UNCHANGED << m_stopped, m_worker_threads, wpc >>
       ELSE \E hw \in HardwareConcurrency :
            LET n == IF worker_count = 0 THEN hw ELSE worker_count IN
            /\ m_stopped' = FALSE
            /\ m_worker_threads' = m_worker_threads \o ThreadIds(n)
            /\ wpc' = [w \in Workers |-> IF w < n THEN "ready" ELSE wpc[w]]
            /\ event' = [NoCall EXCEPT !.op = "start",
                                      !.worker_count = worker_count,
                                      !.ok = TRUE]
    /\ UNCHANGED << m_waiting, m_pending_jobs, m_job_queue, wjob, cpc, cjoin,
                    submitted, started >>

\* Mutant of stop: m_management_cv.notify_one() in place of notify_all().
stopNotifyOne(c, clear_queue) ==
    /\ cpc[c] = "idle"
    /\ IF m_stopped
       THEN /\ event' = [NoCall EXCEPT !.op = "stop",
                                      !.clear_queue = clear_queue]
            /\ UNCHANGED << m_stopped, m_job_queue, wpc, cpc, cjoin >>
       ELSE /\ m_stopped' = TRUE
            /\ m_job_queue' = IF clear_queue THEN << >> ELSE m_job_queue
            /\ NotifyOneWorker
            /\ cpc' = [cpc EXCEPT ![c] = "join"]
            /\ cjoin' = [cjoin EXCEPT ![c] = 1]
            /\ event' = [NoCall EXCEPT !.op = "stopping",
                                      !.clear_queue = clear_queue]
    /\ UNCHANGED << m_waiting, m_pending_jobs, m_worker_threads, wjob,
                    submitted, started >>

\* Mutant of stop: clear_queue is ignored, the queue is always kept.
stopKeepQueue(c, clear_queue) ==
    /\ cpc[c] = "idle"
    /\ IF m_stopped
       THEN /\ event' = [NoCall EXCEPT !.op = "stop",
                                      !.clear_queue = clear_queue]
            /\ UNCHANGED << m_stopped, wpc, cpc, cjoin >>
       ELSE /\ m_stopped' = TRUE
            /\ NotifyAllWorkers
            /\ cpc' = [cpc EXCEPT ![c] = "join"]
            /\ cjoin' = [cjoin EXCEPT ![c] = 1]
            /\ event' = [NoCall EXCEPT !.op = "stopping",
                                      !.clear_queue = clear_queue]
    /\ UNCHANGED << m_waiting, m_pending_jobs, m_job_queue, m_worker_threads,
                    wjob, submitted, started >>

\* Mutant of stop: clear_queue is ignored, the queue is always emptied.
stopAlwaysClear(c, clear_queue) ==
    /\ cpc[c] = "idle"
    /\ IF m_stopped
       THEN /\ event' = [NoCall EXCEPT !.op = "stop",
                                      !.clear_queue = clear_queue]
            /\ UNCHANGED << m_stopped, m_job_queue, wpc, cpc, cjoin >>
       ELSE /\ m_stopped' = TRUE
            /\ m_job_queue' = << >>
            /\ NotifyAllWorkers
            /\ cpc' = [cpc EXCEPT ![c] = "join"]
            /\ cjoin' = [cjoin EXCEPT ![c] = 1]
            /\ event' = [NoCall EXCEPT !.op = "stopping",
                                      !.clear_queue = clear_queue]
    /\ UNCHANGED << m_waiting, m_pending_jobs, m_worker_threads, wjob,
                    submitted, started >>

\* Mutant of stop: clear_queue is honoured before m_stopped is checked.
stopClearFirst(c, clear_queue) ==
    /\ cpc[c] = "idle"
    /\ m_job_queue' = IF clear_queue THEN << >> ELSE m_job_queue
    /\ IF m_stopped
       THEN /\ event' = [NoCall EXCEPT !.op = "stop",
                                      !.clear_queue = clear_queue]
            /\ UNCHANGED << m_stopped, wpc, cpc, cjoin >>
       ELSE /\ m_stopped' = TRUE
            /\ NotifyAllWorkers
            /\ cpc' = [cpc EXCEPT ![c] = "join"]
            /\ cjoin' = [cjoin EXCEPT ![c] = 1]
            /\ event' = [NoCall EXCEPT !.op = "stopping",
                                      !.clear_queue = clear_queue]
    /\ UNCHANGED << m_waiting, m_pending_jobs, m_worker_threads, wjob,
                    submitted, started >>

\* stop(clear_queue), the critical section; the join loop follows.
stop(c, clear_queue) ==
    /\ cpc[c] = "idle"
    /\ IF m_stopped
       THEN /\ event' = [NoCall EXCEPT !.op = "stop",
                                      !.clear_queue = clear_queue]
            /\ UNCHANGED << m_stopped, m_job_queue, wpc, cpc, cjoin >>
       ELSE /\ m_stopped' = TRUE
            /\ m_job_queue' = IF clear_queue THEN << >> ELSE m_job_queue
            /\ NotifyAllWorkers
            /\ cpc' = [cpc EXCEPT ![c] = "join"]
            /\ cjoin' = [cjoin EXCEPT ![c] = 1]
            /\ event' = [NoCall EXCEPT !.op = "stopping",
                                      !.clear_queue = clear_queue]
    /\ UNCHANGED << m_waiting, m_pending_jobs, m_worker_threads, wjob,
                    submitted, started >>

\* Mutant of stopJoin: the thread is detached instead of joined, so the loop
\* does not wait for the worker to leave workerLoop.
stopJoinDetach(c) ==
    /\ cpc[c] = "join"
    /\ cjoin[c] <= Len(m_worker_threads)
    /\ cjoin' = [cjoin EXCEPT ![c] = cjoin[c] + 1]
    /\ event' = NoCall
    /\ UNCHANGED << m_stopped, m_waiting, m_pending_jobs, m_job_queue,
                    m_worker_threads, wpc, wjob, cpc, submitted, started >>

\* One iteration of stop()'s loop: thread_ptr->join() returns once that worker
\* thread has left workerLoop.
stopJoin(c) ==
    /\ cpc[c] = "join"
    /\ cjoin[c] <= Len(m_worker_threads)
    /\ wpc[m_worker_threads[cjoin[c]]] = "exited"
    /\ wpc' = [wpc EXCEPT ![m_worker_threads[cjoin[c]]] = "none"]
    /\ cjoin' = [cjoin EXCEPT ![c] = cjoin[c] + 1]
    /\ event' = NoCall
    /\ UNCHANGED << m_stopped, m_waiting, m_pending_jobs, m_job_queue,
                    m_worker_threads, wjob, cpc, submitted, started >>

\* The end of stop(): m_worker_threads.clear(); return true.
stopReturn(c) ==
    /\ cpc[c] = "join"
    /\ cjoin[c] > Len(m_worker_threads)
    /\ m_worker_threads' = << >>
    /\ cpc' = [cpc EXCEPT ![c] = "idle"]
    /\ cjoin' = [cjoin EXCEPT ![c] = 0]
    /\ event' = [NoCall EXCEPT !.op = "stop", !.ok = TRUE]
    /\ UNCHANGED << m_stopped, m_waiting, m_pending_jobs, m_job_queue, wpc,
                    wjob, submitted, started >>

\* wait(), up to the point where it returns or blocks on m_counter_cv.
wait(c) ==
    /\ cpc[c] = "idle"
    /\ IF m_pending_jobs > 0
       THEN /\ m_waiting' = TRUE
            /\ cpc' = [cpc EXCEPT ![c] = "wblocked"]
            /\ event' = NoCall
       ELSE /\ event' = [NoCall EXCEPT !.op = "wait"]
            /\ UNCHANGED << m_waiting, cpc >>
    /\ UNCHANGED << m_stopped, m_pending_jobs, m_job_queue, m_worker_threads,
                    wpc, wjob, cjoin, submitted, started >>

\* Mutant of waitWake: m_counter_cv.wait without its predicate, so any wake-up
\* ends the wait.
waitWakeNoPredicate(c) ==
    /\ cpc[c] = "wready"
    /\ m_waiting' = FALSE
    /\ cpc' = [cpc EXCEPT ![c] = "idle"]
    /\ event' = [NoCall EXCEPT !.op = "wait", !.blocked = TRUE]
    /\ UNCHANGED << m_stopped, m_pending_jobs, m_job_queue, m_worker_threads,
                    wpc, wjob, cjoin, submitted, started >>

\* wait(), woken: m_counter_cv.wait re-acquires the lock and re-checks the
\* predicate (m_pending_jobs == 0); when it holds, m_waiting = false; return.
waitWake(c) ==
    /\ cpc[c] = "wready"
    /\ IF m_pending_jobs = 0
       THEN /\ m_waiting' = FALSE
            /\ cpc' = [cpc EXCEPT ![c] = "idle"]
            /\ event' = [NoCall EXCEPT !.op = "wait", !.blocked = TRUE]
       ELSE /\ cpc' = [cpc EXCEPT ![c] = "wblocked"]
            /\ event' = NoCall
            /\ UNCHANGED m_waiting
    /\ UNCHANGED << m_stopped, m_pending_jobs, m_job_queue, m_worker_threads,
                    wpc, wjob, cjoin, submitted, started >>

\* Mutant of clearQueue: the queue is emptied as stop() empties it, without
\* the subtraction from m_pending_jobs.
clearQueueNoSubtract(c) ==
    /\ cpc[c] = "idle"
    /\ m_job_queue' = << >>
    /\ event' = [NoCall EXCEPT !.op = "clearQueue", !.count = Len(m_job_queue)]
    /\ UNCHANGED << m_stopped, m_waiting, m_pending_jobs, m_worker_threads,
                    wpc, wjob, cpc, cjoin, submitted, started >>

\* Mutant of clearQueue: the counter is reset to 0, as if no job were in
\* flight.
clearQueueResetCounter(c) ==
    /\ cpc[c] = "idle"
    /\ m_pending_jobs' = 0
    /\ m_job_queue' = << >>
    /\ event' = [NoCall EXCEPT !.op = "clearQueue", !.count = Len(m_job_queue)]
    /\ UNCHANGED << m_stopped, m_waiting, m_worker_threads, wpc, wjob, cpc,
                    cjoin, submitted, started >>

\* clearQueue()
clearQueue(c) ==
    /\ cpc[c] = "idle"
    /\ m_pending_jobs' = m_pending_jobs - Len(m_job_queue)
    /\ m_job_queue' = << >>
    /\ event' = [NoCall EXCEPT !.op = "clearQueue", !.count = Len(m_job_queue)]
    /\ UNCHANGED << m_stopped, m_waiting, m_worker_threads, wpc, wjob, cpc,
                    cjoin, submitted, started >>

----------------------------------------------------------------------------
\* workerLoop(id), run by worker thread w.

\* Mutant of workerLoopFetch: m_stopped is looked at only once the queue is
\* empty, so a worker drains the queue of a stopped pool before it leaves.
workerLoopFetchDrain(w) ==
    /\ wpc[w] = "ready"
    /\ IF m_job_queue # << >>
       THEN /\ wjob' = [wjob EXCEPT ![w] = Head(m_job_queue)]
            /\ m_job_queue' = Tail(m_job_queue)
            /\ started' = [started EXCEPT ![Head(m_job_queue)] = @ + 1]
            /\ wpc' = [wpc EXCEPT ![w] = "run"]
       ELSE /\ wpc' = [wpc EXCEPT ![w] =
                          IF m_stopped THEN "exited" ELSE "blocked"]
            /\ UNCHANGED << wjob, m_job_queue, started >>
    /\ event' = NoCall
    /\ UNCHANGED << m_stopped, m_waiting, m_pending_jobs, m_worker_threads,
                    cpc, cjoin, submitted >>

\* Mutant of workerLoopFetch: the job is taken from the back of the queue.
workerLoopFetchBack(w) ==
    /\ wpc[w] = "ready"
    /\ IF (m_job_queue # << >>) \/ m_stopped
       THEN IF ~m_stopped
            THEN /\ wjob' = [wjob EXCEPT ![w] = m_job_queue[Len(m_job_queue)]]
                 /\ m_job_queue' =
                        SubSeq(m_job_queue, 1, Len(m_job_queue) - 1)
                 /\ started' = [started EXCEPT
                                  ![m_job_queue[Len(m_job_queue)]] = @ + 1]
                 /\ wpc' = [wpc EXCEPT ![w] = "run"]
            ELSE /\ wpc' = [wpc EXCEPT ![w] = "exited"]
                 /\ UNCHANGED << wjob, m_job_queue, started >>
       ELSE /\ wpc' = [wpc EXCEPT ![w] = "blocked"]
            /\ UNCHANGED << wjob, m_job_queue, started >>
    /\ event' = NoCall
    /\ UNCHANGED << m_stopped, m_waiting, m_pending_jobs, m_worker_threads,
                    cpc, cjoin, submitted >>

\* Mutant of workerLoopFetch: the job is read from the front of the queue and
\* the queue is not popped.
workerLoopFetchNoPop(w) ==
    /\ wpc[w] = "ready"
    /\ IF (m_job_queue # << >>) \/ m_stopped
       THEN IF ~m_stopped
            THEN /\ wjob' = [wjob EXCEPT ![w] = Head(m_job_queue)]
                 /\ started' = [started EXCEPT ![Head(m_job_queue)] = @ + 1]
                 /\ wpc' = [wpc EXCEPT ![w] = "run"]
                 /\ UNCHANGED m_job_queue
            ELSE /\ wpc' = [wpc EXCEPT ![w] = "exited"]
                 /\ UNCHANGED << wjob, m_job_queue, started >>
       ELSE /\ wpc' = [wpc EXCEPT ![w] = "blocked"]
            /\ UNCHANGED << wjob, m_job_queue, started >>
    /\ event' = NoCall
    /\ UNCHANGED << m_stopped, m_waiting, m_pending_jobs, m_worker_threads,
                    cpc, cjoin, submitted >>

\* Mutant of workerLoopFetch: m_management_cv.wait without its predicate, so
\* a worker that is not stopped goes on to front()/pop() whatever the queue
\* holds (on an empty queue: no job, written 0).
workerLoopFetchNoPredicate(w) ==
    /\ wpc[w] = "ready"
    /\ IF ~m_stopped
       THEN /\ wjob' = [wjob EXCEPT ![w] =
                          IF m_job_queue # << >> THEN Head(m_job_queue) ELSE 0]
            /\ m_job_queue' =
                   IF m_job_queue # << >> THEN Tail(m_job_queue) ELSE << >>
            /\ started' =
                   IF m_job_queue # << >>
                   THEN [started EXCEPT ![Head(m_job_queue)] = @ + 1]
                   ELSE started
            /\ wpc' = [wpc EXCEPT ![w] = "run"]
       ELSE /\ wpc' = [wpc EXCEPT ![w] = "exited"]
            /\ UNCHANGED << wjob, m_job_queue, started >>
    /\ event' = NoCall
    /\ UNCHANGED << m_stopped, m_waiting, m_pending_jobs, m_worker_threads,
                    cpc, cjoin, submitted >>

\* The first block of the loop: with the lock held, the predicate of
\* m_management_cv.wait is checked; the thread blocks when it is false, and
\* otherwise takes the front job, or leaves the loop when m_stopped.
workerLoopFetch(w) ==
    /\ wpc[w] = "ready"
    /\ IF (m_job_queue # << >>) \/ m_stopped
       THEN IF ~m_stopped
            THEN /\ wjob' = [wjob EXCEPT ![w] = Head(m_job_queue)]
                 /\ m_job_queue' = Tail(m_job_queue)
                 /\ started' = [started EXCEPT ![Head(m_job_queue)] = @ + 1]
                 /\ wpc' = [wpc EXCEPT ![w] = "run"]
            ELSE /\ wpc' = [wpc EXCEPT ![w] = "exited"]
                 /\ UNCHANGED << wjob, m_job_queue, started >>
       ELSE /\ wpc' = [wpc EXCEPT ![w] = "blocked"]
            /\ UNCHANGED << wjob, m_job_queue, started >>
    /\ event' = NoCall
    /\ UNCHANGED << m_stopped, m_waiting, m_pending_jobs, m_worker_threads,
                    cpc, cjoin, submitted >>

\* Mutant of workerLoopFinish: a worker that finds the pool Stopped after its
\* job skips the second block of the loop.
workerLoopFinishSkipStopped(w) ==
    /\ wpc[w] = "run"
    /\ m_pending_jobs' = IF m_stopped THEN m_pending_jobs
                         ELSE m_pending_jobs - 1
    /\ IF (m_pending_jobs' = 0) /\ m_waiting
       THEN NotifyOneWaiter
       ELSE cpc' = cpc
    /\ wjob' = [wjob EXCEPT ![w] = 0]
    /\ wpc' = [wpc EXCEPT ![w] = "ready"]
    /\ event' = NoCall
    /\ UNCHANGED << m_stopped, m_waiting, m_job_queue, m_worker_threads,
                    cjoin, submitted, started >>

\* (*job)() returns, and the second block of the loop: --m_pending_jobs, and
\* the notification of m_counter_cv.
\* (The local `job` keeps the finished callable until the next reset(); it is
\* never called again, and wjob records only a job that is being run.)
workerLoopFinish(w) ==
    /\ wpc[w] = "run"
    /\ m_pending_jobs' = m_pending_jobs - 1
    /\ IF (m_pending_jobs' = 0) /\ m_waiting
       THEN NotifyOneWaiter
       ELSE cpc' = cpc
    /\ wjob' = [wjob EXCEPT ![w] = 0]
    /\ wpc' = [wpc EXCEPT ![w] = "ready"]
    /\ event' = NoCall
    /\ UNCHANGED << m_stopped, m_waiting, m_job_queue, m_worker_threads,
                    cjoin, submitted, started >>

\* A spurious wake-up of a worker blocked on m_management_cv.
workerSpuriousWake(w) ==
    /\ wpc[w] = "blocked"
    /\ wpc' = [wpc EXCEPT ![w] = "ready"]
    /\ event' = NoCall
    /\ UNCHANGED << m_stopped, m_waiting, m_pending_jobs, m_job_queue,
                    m_worker_threads, wjob, cpc, cjoin, submitted, started >>

\* A spurious wake-up of a thread blocked on m_counter_cv.
waitSpuriousWake(c) ==
    /\ cpc[c] = "wblocked"
    /\ cpc' = [cpc EXCEPT ![c] = "wready"]
    /\ event' = NoCall
    /\ UNCHANGED << m_stopped, m_waiting, m_pending_jobs, m_job_queue,
                    m_worker_threads, wpc, wjob, cjoin, submitted, started >>

----------------------------------------------------------------------------
Next ==
    \/ \E c \in Clients : addJob(c)
    \/ \E c \in Clients, n \in 0 .. MaxWorkers : start(c, n)
    \/ \E c \in Clients, clear_queue \in BOOLEAN : stop(c, clear_queue)
    \/ \E c \in Clients : stopJoin(c)
    \/ \E c \in Clients : stopReturn(c)
    \/ \E c \in Clients : wait(c)
    \/ \E c \in Clients : waitWake(c)
    \/ \E c \in Clients : clearQueue(c)
    \/ \E w \in Workers : workerLoopFetch(w)
    \/ \E w \in Workers : workerLoopFinish(w)
    \/ \E w \in Workers : workerSpuriousWake(w)
    \/ \E c \in Clients : waitSpuriousWake(c)

Spec == Init /\ [][Next]_vars

\* std::terminate() has been called.
Terminated == \E w \in Workers : wpc[w] = "terminated"

\* (*job)() raises.  workerLoop has no handler, so the exception leaves the
\* thread's function and std::terminate() ends the process: the second block
\* of the loop is not run, and no thread takes a step afterwards.
workerLoopRaise(w) ==
    /\ ~Terminated
    /\ wpc[w] = "run"
    /\ wpc' = [wpc EXCEPT ![w] = "terminated"]
    /\ event' = NoCall
    /\ UNCHANGED << m_stopped, m_waiting, m_pending_jobs, m_job_queue,
                    m_worker_threads, wjob, cpc, cjoin, submitted, started >>

\* The pool with jobs that may raise.
RaiseNext ==
    \/ ~Terminated /\ Next
    \/ \E w \in Workers : workerLoopRaise(w)

RaiseSpec == Init /\ [][RaiseNext]_vars

\* Every thread that is ready to run is eventually scheduled, and every job
\* returns: weak fairness of the steps of the worker threads and of the
\* threads woken in wait() or joining in stop().  Calls of the public
\* interface and spurious wake-ups are not fair: they need not happen.
Fairness ==
    /\ \A w \in Workers : WF_vars(workerLoopFetch(w))
    /\ \A w \in Workers : WF_vars(workerLoopFinish(w))
    /\ \A c \in Clients : WF_vars(waitWake(c))
    /\ \A c \in Clients : WF_vars(stopJoin(c))
    /\ \A c \in Clients : WF_vars(stopReturn(c))

LiveSpec == Init /\ [][Next]_vars /\ Fairness

----------------------------------------------------------------------------
\* Derived notions used by the properties.

\* The workers that hold a dequeued job that has not finished.
Executing == {w \in Workers : wpc[w] = "run"}

InQueue(j) == \E i \in 1 .. Len(m_job_queue) : m_job_queue[i] = j

\* How many times job j has run to its end.
Completed(j) ==
    started[j] - Cardinality({w \in Executing : wjob[w] = j})

\* Job j was submitted and removed from the queue without being dequeued.
Discarded(j) == j <= submitted /\ ~InQueue(j) /\ started[j] = 0

\* Client c is inside wait(), blocked or woken.
InWait(c) == cpc[c] \in {"wblocked", "wready"}

----------------------------------------------------------------------------
\* C1: in the state in which a wait() returns, the pending-jobs counter is 0
\* and every job submitted so far that was not removed from the queue by
\* clearQueue or stop has been dequeued exactly once and has finished.
C1_WaitReturnsAllDone ==
    event.op = "wait" =>
        /\ m_pending_jobs = 0
        /\ \A j \in 1 .. submitted :
              ~Discarded(j) => (started[j] = 1 /\ Completed(j) = 1)

\* A wait() that blocked returns in a running pool after two or more jobs,
\* none of them discarded.
C1_Witness ==
    /\ event.op = "wait"
    /\ event.blocked
    /\ ~m_stopped
    /\ Len(m_worker_threads) >= 1
    /\ submitted >= 2
    /\ \A j \in 1 .. submitted : started[j] = 1

\* C2: the pending-jobs counter is the number of queued jobs plus the number
\* of jobs dequeued and not finished, so runningJobs() is the number of jobs
\* being executed.
C2_PendingIsQueuedPlusRunning ==
    /\ m_pending_jobs = Len(m_job_queue) + Cardinality(Executing)
    /\ runningJobs = Cardinality(Executing)

\* C3: in the state in which stop() returns true, no job is being executed,
\* every dequeued job has finished, every worker thread has left its loop and
\* been joined, and the worker collection is empty.
C3_StopReturnsAfterJobs ==
    (event.op = "stop" /\ event.ok) =>
        /\ Executing = {}
        /\ \A j \in Jobs : Completed(j) = started[j]
        /\ \A w \in Workers : wpc[w] = "none"
        /\ m_worker_threads = << >>

\* stop() returns true after a job was dequeued, with jobs left on the queue.
C3_Witness ==
    /\ event.op = "stop"
    /\ event.ok
    /\ \E j \in Jobs : started[j] = 1
    /\ m_job_queue # << >>

\* C4: a job is dequeued only in a step taken while the pool is Running, and
\* a worker that holds a dequeued job keeps it until the step in which the
\* job finishes and the counter is decremented, also while Stopped.
C4_NoDequeueWhenStopped ==
    [][ /\ (started' # started) => (~m_stopped /\ ~m_stopped')
        /\ \A w \in Workers :
              (wpc[w] = "run" /\ wpc'[w] # "run") =>
                  /\ wpc'[w] = "ready"
                  /\ m_pending_jobs' = m_pending_jobs - 1
                  /\ started' = started ]_vars

\* The pool is Stopped with a job in flight, a job on the queue and a worker
\* about to check the queue.
C4_Witness ==
    /\ m_stopped
    /\ m_job_queue # << >>
    /\ \E w \in Workers : wpc[w] = "run"
    /\ \E w \in Workers : wpc[w] = "ready"

\* C5: a clearQueue() step empties the queue, returns the number k of jobs
\* that were in it, decreases the pending-jobs counter by k, and leaves the
\* jobs held by workers, the workers and the Running/Stopped state unchanged.
C5_ClearQueueEffect ==
    [][ event'.op = "clearQueue" =>
          /\ m_job_queue' = << >>
          /\ event'.count = Len(m_job_queue)
          /\ m_pending_jobs' = m_pending_jobs - event'.count
          /\ UNCHANGED << wjob, wpc, started, m_stopped, m_worker_threads >> ]_vars

\* clearQueue() has removed a job while a worker holds another one.
C5_Witness ==
    /\ event.op = "clearQueue"
    /\ event.count >= 1
    /\ Executing # {}

\* C6: when two or more threads are inside wait() and the pending-jobs counter
\* is 0, each of them leaves wait() unless the counter rises again.
C6_AllWaitersReleased ==
    \A c \in Clients :
        (/\ InWait(c)
         /\ Cardinality({d \in Clients : InWait(d)}) >= 2
         /\ m_pending_jobs = 0)
        ~> (~InWait(c) \/ m_pending_jobs # 0)

\* C7: a single thread blocked in wait(), with the waiter flag set, leaves
\* wait() once the pending-jobs counter is 0, unless the counter rises again.
C7_WaitReturnsAtZero ==
    \A c \in Clients :
        (/\ cpc[c] = "wblocked"
         /\ m_waiting
         /\ \A d \in Clients \ {c} : ~InWait(d)
         /\ m_pending_jobs = 0)
        ~> (~InWait(c) \/ m_pending_jobs # 0)

\* The variables of the pool and of its threads: all but the record of the
\* last call.
poolVars == << m_stopped, m_waiting, m_pending_jobs, m_job_queue,
               m_worker_threads, wpc, wjob, cpc, cjoin, submitted, started >>

\* C8: a start(n) step taken while Running returns false and changes nothing;
\* one taken while Stopped returns true and leaves the pool Running with one
\* worker set: threads 0 .. n-1 (for n = 0, as many as hardware threads).
C8_StartWhileRunning ==
    [][ event'.op = "start" =>
          IF m_stopped
          THEN /\ event'.ok
               /\ ~m_stopped'
               /\ m_worker_threads' = ThreadIds(Len(m_worker_threads'))
               /\ IF event'.worker_count > 0
                  THEN Len(m_worker_threads') = event'.worker_count
                  ELSE Len(m_worker_threads') \in HardwareConcurrency
               /\ \A w \in Workers :
                     wpc'[w] # "none" <=> w < Len(m_worker_threads')
          ELSE /\ ~event'.ok
               /\ UNCHANGED poolVars ]_vars

\* start() has returned false on a pool with a worker set.
C8_Witness ==
    /\ event.op = "start"
    /\ ~event.ok
    /\ event.worker_count >= 1
    /\ ~m_stopped
    /\ Len(m_worker_threads) >= 1

\* C9: a stop(clear_queue) step taken while Stopped returns false and changes
\* nothing; stop enters its join loop only from Running, and a stop() returns
\* true only from that loop.
C9_StopWhileStopped ==
    [][ /\ event'.op = "stopping" => (~m_stopped /\ m_stopped')
        /\ event'.op = "stop" =>
              IF event'.ok
              THEN \E c \in Clients : cpc[c] = "join" /\ cpc'[c] = "idle"
              ELSE m_stopped /\ UNCHANGED poolVars ]_vars

\* stop(true) has returned false and the queue still holds jobs.
C9_Witness ==
    /\ event.op = "stop"
    /\ ~event.ok
    /\ event.clear_queue
    /\ m_job_queue # << >>
    /\ m_pending_jobs = Len(m_job_queue)

\* C10: in a Stopped pool in which no job was dequeued or discarded, every
\* submitted job is on the queue and pending = queued = submitted; and once a
\* start has returned true with one worker or more on a pool whose pending
\* jobs are all on the queue, the counter comes to 0 with every submitted job
\* run once to its end (or removed by clearQueue), unless a stop intervenes.
C10_QueuedJobsRunAfterStart ==
    /\ []( ( /\ m_stopped
             /\ \A j \in Jobs : started[j] = 0
             /\ \A j \in 1 .. submitted : ~Discarded(j) )
           => ( /\ m_pending_jobs = Len(m_job_queue)
                /\ Len(m_job_queue) = submitted ) )
    /\ (/\ event.op = "start" /\ event.ok
        /\ Len(m_worker_threads) >= 1
        /\ m_job_queue # << >>
        /\ m_pending_jobs = Len(m_job_queue))
       ~> \/ m_stopped
          \/ /\ m_pending_jobs = 0
             /\ \A j \in 1 .. submitted : Completed(j) = 1 \/ Discarded(j)

\* start() has returned true on a pool that holds two or more jobs, all of
\* them submitted while it was Stopped and none dequeued.
C10_Witness ==
    /\ event.op = "start"
    /\ event.ok
    /\ Len(m_worker_threads) >= 1
    /\ submitted >= 2
    /\ Len(m_job_queue) = submitted
    /\ m_pending_jobs = submitted

\* The jobs that a worker has dequeued.
Dequeued == {j \in Jobs : started[j] >= 1}

\* C11 as claimed: when stop(clear_queue = true) takes effect on a Running
\* pool of W workers to which N > W jobs were submitted, none of them removed
\* before, exactly W jobs have been dequeued (and no other will be).
C11_ExactlyWJobsExecute ==
    [][ ( /\ event'.op = "stopping" /\ event'.clear_queue
          /\ \A j \in 1 .. submitted : ~Discarded(j)
          /\ Len(m_worker_threads) >= 1
          /\ Len(m_worker_threads) < submitted )
        => Cardinality(Dequeued') = Len(m_worker_threads) ]_vars

\* C11 amended: a stop(clear_queue = true) step on a Running pool of W workers
\* dequeues nothing and leaves at most W jobs in flight, one per worker; every
\* job not dequeued by then is discarded and is never dequeued later; and in
\* the state in which the stop returns no job is in flight.
C11_StopTrueDiscardsQueued ==
    [][ /\ (event'.op = "stopping" /\ event'.clear_queue) =>
              /\ started' = started
              /\ m_job_queue' = << >>
              /\ \A j \in 1 .. submitted : started[j] = 0 => Discarded(j)'
              /\ Cardinality(Executing') <= Len(m_worker_threads)
              /\ \A w, v \in Executing' : wjob'[w] = wjob'[v] => w = v
        /\ \A j \in Jobs : Discarded(j) => (Discarded(j)' /\ started'[j] = 0)
        /\ (event'.op = "stop" /\ event'.ok) => Executing' = {} ]_vars

\* stop(true) has just taken effect on a pool with fewer workers than jobs:
\* a job is in flight and another one was discarded.
C11_Witness ==
    /\ event.op = "stopping"
    /\ event.clear_queue
    /\ Len(m_worker_threads) >= 1
    /\ Len(m_worker_threads) < submitted
    /\ Executing # {}
    /\ \E j \in Jobs : Discarded(j)

C13_FifoDequeue ==
    [][ /\ \A a, b \in 1 .. Len(m_job_queue) :
              a < b => m_job_queue[a] < m_job_queue[b]
        /\ \A j \in Jobs :
              started'[j] > started[j] =>
                  /\ InQueue(j)
                  /\ \A i \in Jobs : InQueue(i) => j <= i
        /\ \A i, j \in Jobs :
              (i < j /\ started'[j] >= 1) => ~InQueue(i)' ]_vars

\* Two workers hold two jobs, the older one dequeued although the newer one
\* was already on the queue.
C13_Witness ==
    /\ Cardinality(Executing) >= 2
    /\ \E w, v \in Executing : wjob[w] < wjob[v]
    /\ \A j \in 1 .. submitted : started[j] = 1

\* C14: the pending-jobs counter is never negative and never smaller than the
\* queue length, so the difference that runningJobs() returns as a size_t is
\* never negative and does not wrap.
C14_CounterNotBelowQueue ==
    /\ m_pending_jobs >= 0
    /\ m_pending_jobs >= Len(m_job_queue)
    /\ runningJobs >= 0
    /\ runningJobs >= Cardinality(Executing)

\* After a stop(true) that discarded a job and the end of a job, the counter
\* is above the number of queued and executing jobs.
C14_Witness ==
    /\ \E j \in Jobs : Discarded(j)
    /\ \E j \in Jobs : Completed(j) = 1
    /\ m_pending_jobs > Len(m_job_queue) + Cardinality(Executing)

\* C15: a job on the queue of a Running pool with one worker or more is
\* dequeued, unless a stop or a clearQueue intervenes: the notify_one of
\* addJob loses no wake-up.
C15_NoLostWakeup ==
    \A j \in Jobs :
        (InQueue(j) /\ ~m_stopped /\ Len(m_worker_threads) >= 1)
        ~> (started[j] >= 1 \/ m_stopped \/ Discarded(j))

\* addJob has just signalled a Running pool in which one worker is woken
\* and another one is still blocked.
C15_Witness ==
    /\ event.op = "addJob"
    /\ ~m_stopped
    /\ m_job_queue # << >>
    /\ \E w, v \in Workers : wpc[w] = "ready" /\ wpc[v] = "blocked"

\* C16: a stop() that has set the state to Stopped returns: every worker,
\* blocked, woken or busy, leaves its loop and is joined, whether or not jobs
\* are left on the queue.
C16_StopTerminates ==
    \A c \in Clients :
        (cpc[c] = "join") ~> (cpc[c] = "idle" /\ event.op = "stop" /\ event.ok)

\* stop() is in its join loop with jobs left on the queue, one worker still
\* busy with a job and another one not yet out of its loop.
C16_Witness ==
    /\ \E c \in Clients : cpc[c] = "join"
    /\ m_job_queue # << >>
    /\ \E w, v \in Workers : wpc[w] = "run" /\ wpc[v] = "ready"

\* C17: the waiter flag is set exactly when some thread is inside wait().
C17_WaiterFlagIffWaiting ==
    m_waiting <=> (\E c \in Clients : InWait(c))

\* C18 as claimed: the counter goes up by one in each addJob step and in no
\* other step, and goes down by one in each step in which a worker's job
\* ends, whether the job returns or raises.
C18_DecrementUnconditional ==
    [][ /\ event'.op = "addJob" => m_pending_jobs' = m_pending_jobs + 1
        /\ m_pending_jobs' > m_pending_jobs => event'.op = "addJob"
        /\ \A w \in Workers :
              (wpc[w] = "run" /\ wpc'[w] # "run") =>
                  m_pending_jobs' = m_pending_jobs - 1 ]_vars

\* C18 amended: the counter goes up by one in each addJob step and in no
\* other step; it goes down by one in each step in which a worker's job
\* returns, and otherwise only in a clearQueue step; a job that raises ends
\* the process with the counter not decremented.
C18_DecrementOnReturnOnly ==
    [][ /\ event'.op = "addJob" => m_pending_jobs' = m_pending_jobs + 1
        /\ m_pending_jobs' > m_pending_jobs => event'.op = "addJob"
        /\ \A w \in Workers :
              (wpc[w] = "run" /\ wpc'[w] = "ready") =>
                  m_pending_jobs' = m_pending_jobs - 1
        /\ \A w \in Workers :
              (wpc[w] = "run" /\ wpc'[w] \notin {"run", "ready"}) =>
                  /\ wpc'[w] = "terminated"
                  /\ m_pending_jobs' = m_pending_jobs
        /\ m_pending_jobs' < m_pending_jobs =>
              \/ /\ event'.op = "clearQueue"
                 /\ m_pending_jobs' = m_pending_jobs - Len(m_job_queue)
              \/ /\ m_pending_jobs' = m_pending_jobs - 1
                 /\ Cardinality({w \in Workers :
                        wpc[w] = "run" /\ wpc'[w] = "ready"}) = 1
        /\ Terminated => UNCHANGED poolVars ]_vars

\* A job has raised: the process is terminated and the job is still counted.
C18_Witness ==
    /\ Terminated
    /\ m_pending_jobs >= 1
    /\ m_job_queue = << >>
    /\ Executing = {}

\* C19: no job is dequeued more than once; a step that dequeues a job hands
\* it to one worker and takes it off the queue; and a job removed from the
\* queue by clearQueue or by stop(clear_queue = true) is never dequeued.
C19_AtMostOnce ==
    [][ \A j \in Jobs :
          /\ started'[j] <= 1
          /\ started'[j] # started[j] =>
                /\ started[j] = 0
                /\ ~InQueue(j)'
                /\ Cardinality({w \in Workers :
                       wpc'[w] = "run" /\ wjob'[w] = j}) = 1
          /\ Cardinality({w \in Workers :
                 wpc'[w] = "run" /\ wjob'[w] = j}) <= 1
          /\ Discarded(j) => started'[j] = 0 ]_vars

\* A restarted pool with an idle worker, in which one job has run once and
\* another one was discarded and has not run.
C19_Witness ==
    /\ event.op = "start"
    /\ event.ok
    /\ \E j \in Jobs : Completed(j) = 1
    /\ \E j \in Jobs : Discarded(j)
    /\ \E w \in Workers : wpc[w] = "ready"

\* C20: a worker takes front()/pop() only from a queue that is not empty: a
\* worker that passes from its wait to running a job does so in a step that
\* starts with a job on the queue, and the job it runs is the front one.
C20_NoDequeueFromEmpty ==
    [][ \A w \in Workers :
          (wpc[w] # "run" /\ wpc'[w] = "run") =>
              /\ m_job_queue # << >>
              /\ wjob'[w] \in Jobs
              /\ InQueue(wjob'[w])
              /\ Len(m_job_queue') = Len(m_job_queue) - 1 ]_vars

\* clearQueue has emptied the queue of a Running pool while a worker that
\* was woken has not yet re-acquired the lock.
C20_Witness ==
    /\ event.op = "clearQueue"
    /\ event.count >= 1
    /\ ~m_stopped
    /\ m_job_queue = << >>
    /\ \E w \in Workers : wpc[w] = "ready"

====
